---- MODULE Spec2Model ----
(***************************************************************************)
(* Client state managers of the analytics dashboard frontend:              *)
(*   - the Active-Dataset Tracker (context/DatasetContext.jsx) with the    *)
(*     DataUpload page handlers that drive it,                             *)
(*   - the Session/Auth Manager (context/AuthContext.jsx).                 *)
(*                                                                         *)
(* React state is modelled by its committed value: a handler or a promise  *)
(* callback and the commit of the state updates it queued form one step.   *)
(* The effect a commit schedules (useEffect with a changed dependency) is  *)
(* a step of its own, and React runs it before the next update is          *)
(* processed, so every other step waits for it.  Requests in flight are a  *)
(* bag; the answer of the server is decided when the response is           *)
(* delivered.                                                              *)
(*                                                                         *)
(* The Notification/Toast Bridge (NotificationProvider) has a              *)
(* specification of its own, NotifySpec.  In DatasetSpec and AuthSpec a    *)
(* toast call is represented by the toast fired last (lastToast); the      *)
(* history it adds to is followed in NotifySpec only.                      *)
(***************************************************************************)
EXTENDS Bags, FiniteSets, Integers, Naturals, Sequences, TLC

\* ------------------------------------------------------------------ bounds
\* at most this many requests of the dataset tracker in flight at once
MaxInflight == 4

\* ------------------------------------------------------------------ values
\* JavaScript null / a storage key that is not present
Null == "null"
Absent == "absent"

\* identifiers of the uploaded files the server has held
Files == {"fA", "fB"}

\* GET /upload/status/{id}: the filename the server reports
FileName(f) == IF f = "fA" THEN "a.csv" ELSE "b.pdf"

\* GET /processing/result/{id}: fA is tabular, fB is a text-only document
ResultOf(f) ==
    IF f = "fA" THEN [dataframes |-> 1, text_content |-> ""]
                ELSE [dataframes |-> 0, text_content |-> "text of b"]

VARIABLES
    \* DatasetProvider state (DatasetContext.jsx:7-16)
    activeFileId, activeFileName, activeMetadata, activeSheetIndex,
    isTextOnly, textContent,
    \* window.localStorage, keys activeFileId and activeFileName
    localStorage,
    \* the effect on [activeFileId] is scheduled and has not run yet
    dsEffectDue,
    \* files the server holds, requests of the tracker in flight
    serverFiles, net,
    \* AuthProvider state (AuthContext.jsx:11-14)
    user, token, loading, activeBalance,
    \* window.sessionStorage, keys token and user
    sessionStorage,
    \* the effect on [token] is scheduled and has not run yet
    authEffectDue,
    \* requests of the session manager and of the chat panel in flight
    authNet,
    \* the toast fired last through the notification bridge, [type, title]
    lastToast,
    \* history: the step taken last, [op, ...]
    lastOp,
    \* history: what the server has answered about the active identifier
    \* since it became active, a subset of {"status", "result", "notfound"}
    sinceActive,
    \* NotificationProvider state (main.jsx:211-212)
    notifications, unreadCount,
    \* the clock Date.now() reads
    now,
    \* history: addNotification calls so far, and since the last markAllAsRead
    added, sinceRead,
    \* ForgotPassword page, step 3 (ForgotPassword.jsx:17-21); fpNavigated
    \* is true once the page has navigated to /login
    newPassword, confirmPassword, fpError, fpSuccess, fpLoading, fpNavigated,
    \* a call through the shared API client: the error its response
    \* interceptor is handed, and how the call ended
    apiError, apiOutcome,
    \* FileUploader state (part_008:9-13); upAwait is the request
    \* validateAndUpload waits for, upFileId the file_id the upload returned
    uploadState, progress, upError, fileInfo, upIsTextOnly, upAwait, upFileId,
    \* history of the current run: the file handed in, the values uploadState
    \* went through, the requests sent, the onUploadSuccess calls made
    upFile, upTrace, upSent, upCalls,
    \* PaymentStatus page (part_003:350-353); payEffectDue: the confirming
    \* effect waits to run, payAwait: the request confirmPayment waits for
    sessionId, payStatus, payDetails, hasCalledConfirm, payEffectDue, payAwait,
    \* data: the response confirmPayment holds while it awaits refreshCredits
    payData,
    \* history: confirmPayment requests sent, renders of the AuthProvider
    payRequests, renders

dsVars == <<activeFileId, activeFileName, activeMetadata, activeSheetIndex,
            isTextOnly, textContent, localStorage, dsEffectDue,
            serverFiles, net, sinceActive>>

authVars == <<user, token, loading, activeBalance, sessionStorage,
              authEffectDue, authNet>>

notifyVars == <<notifications, unreadCount, now, added, sinceRead>>

fpVars == <<newPassword, confirmPassword, fpError, fpSuccess, fpLoading,
           fpNavigated>>

apiVars == <<apiError, apiOutcome>>

upVars == <<uploadState, progress, upError, fileInfo, upIsTextOnly, upAwait,
           upFileId, upFile, upTrace, upSent, upCalls>>

payVars == <<sessionId, payStatus, payDetails, hasCalledConfirm, payEffectDue,
            payAwait, payData, payRequests, renders>>

pageVars == <<fpVars, apiVars, upVars, payVars>>

vars == <<dsVars, authVars, notifyVars, pageVars, lastToast, lastOp>>

\* access tokens and user records the server hands out
Tokens == {"t1", "t2"}
Users == {"ann", "bob"}
FullName(u) == IF u = "ann" THEN "Ann" ELSE ""

\* the user initAuth makes up when a token is persisted without a user
DefaultUser == "user@example.com"

\* JSON.stringify of a user record, and JSON.parse of a stored text
JSONstringify(u) == IF u = "ann" THEN "{email:ann,full_name:Ann}"
                    ELSE IF u = "bob" THEN "{email:bob}"
                    ELSE "undefined"
JSONvalid(s) == \E u \in Users : JSONstringify(u) = s
JSONparse(s) == CHOOSE u \in Users : JSONstringify(u) = s

\* a stored text JSON.parse throws on
Corrupt == "{email:"

\* data of a credits response: <<n>> for active_tokens = n, << >> when the
\* field is missing
CreditValues == {<< >>, <<5>>}

\* ------------------------------------------------------------- the tracker
\* useState initialisers: localStorage.getItem(k) || null
GetItemOrNull(store, k) == IF store[k] = Absent THEN Null ELSE store[k]

\* persisted states a previous run of the page can have left behind
PersistedDataset ==
    { [activeFileId |-> Absent, activeFileName |-> Absent],
      [activeFileId |-> "fA",   activeFileName |-> Absent],
      [activeFileId |-> "fA",   activeFileName |-> FileName("fA")] }

Req(kind, f, captured) == [kind |-> kind, file |-> f, active |-> captured]

Send(bag, r) == bag (+) SetToBag({r})
Recv(bag, r) == bag (-) SetToBag({r})

\* DatasetProvider right after construction, the mount effect still to run
DatasetMount ==
    /\ localStorage \in PersistedDataset
    /\ activeFileId = GetItemOrNull(localStorage, "activeFileId")
    /\ activeFileName = GetItemOrNull(localStorage, "activeFileName")
    /\ activeMetadata = Null
    /\ activeSheetIndex = 0
    /\ isTextOnly = FALSE
    /\ textContent = ""
    /\ dsEffectDue = TRUE
    /\ serverFiles \in {Files, Files \ {"fA"}}
    /\ net = EmptyBag
    /\ sinceActive = {}

\* a signed-in session at rest, as the dashboard pages find it
SessionIdle ==
    /\ token = "t1"
    /\ user = "ann"
    /\ loading = FALSE
    /\ activeBalance = 0
    /\ sessionStorage = [token |-> "t1", user |-> JSONstringify("ann")]
    /\ authEffectDue = FALSE
    /\ authNet = EmptyBag

NoToast == [type |-> "none", title |-> ""]

\* ForgotPassword page right after construction
ForgotPasswordMount ==
    /\ newPassword = << >>
    /\ confirmPassword = << >>
    /\ fpError = ""
    /\ fpSuccess = ""
    /\ fpLoading = FALSE
    /\ fpNavigated = FALSE

\* a field that is undefined
Undefined == "undefined"

\* no call through the API client under observation
ApiIdle ==
    /\ apiError = [hasResponse |-> FALSE, detail |-> Undefined,
                   bodyMessage |-> Undefined, message |-> Undefined,
                   friendlyMessage |-> Undefined]
    /\ apiOutcome = "idle"

\* fileInfo of no file
NoFile == << >>

\* FileUploader right after construction
UploaderMount ==
    /\ uploadState = "idle"
    /\ progress = 0
    /\ upError = Null
    /\ fileInfo = NoFile
    /\ upIsTextOnly = FALSE
    /\ upAwait = "none"
    /\ upFileId = Null
    /\ upFile = NoFile
    /\ upTrace = <<"idle">>
    /\ upSent = << >>
    /\ upCalls = << >>

\* the PaymentStatus page is not shown
PaymentIdle ==
    /\ sessionId = Null
    /\ payStatus = "loading"
    /\ payDetails = [success |-> FALSE, credits_added |-> -1]
    /\ payData = [success |-> FALSE, credits_added |-> -1]
    /\ hasCalledConfirm = FALSE
    /\ payEffectDue = FALSE
    /\ payAwait = "none"
    /\ payRequests = 0
    /\ renders = 0

\* the pages right after construction
PagesMount ==
    /\ ForgotPasswordMount
    /\ ApiIdle
    /\ UploaderMount
    /\ PaymentIdle

\* NotificationProvider right after construction
NotifyMount ==
    /\ notifications = << >>
    /\ unreadCount = 0
    /\ now = 0
    /\ added = 0
    /\ sinceRead = 0

DsInit ==
    /\ DatasetMount
    /\ SessionIdle
    /\ NotifyMount
    /\ PagesMount
    /\ lastToast = NoToast
    /\ lastOp = [op |-> "mount"]

\* the state is settled: no effect waits to run
Settled == ~dsEffectDue

\* useEffect(..., [activeFileId]) body, DatasetContext.jsx:18-53
RunDatasetEffect ==
    /\ dsEffectDue
    /\ dsEffectDue' = FALSE
    /\ IF activeFileId # Null
       THEN /\ localStorage' = [localStorage EXCEPT !["activeFileId"] = activeFileId]
            /\ net' = Send(Send(net, Req("status", activeFileId, Null)),
                           Req("result", activeFileId, Null))
            /\ UNCHANGED <<activeFileName, activeMetadata>>
       ELSE /\ localStorage' = [localStorage EXCEPT !["activeFileId"] = Absent,
                                                    !["activeFileName"] = Absent]
            /\ activeFileName' = Null
            /\ activeMetadata' = Null
            /\ net' = net
    /\ lastOp' = [op |-> "effect", file |-> activeFileId]
    /\ UNCHANGED <<authVars, notifyVars, pageVars, lastToast>>
    /\ UNCHANGED <<activeFileId, activeSheetIndex, isTextOnly, textContent,
                   serverFiles, sinceActive>>

\* DataUpload selectFile(file), file taken from the listed uploads
selectFile(f) ==
    /\ Settled
    /\ activeFileId # f => BagCardinality(net) + 2 <= MaxInflight
    /\ activeFileId' = f
    /\ activeFileName' = FileName(f)
    /\ dsEffectDue' = (activeFileId # f)
    /\ lastOp' = [op |-> "selectFile", file |-> f]
    /\ UNCHANGED <<authVars, notifyVars, pageVars, lastToast>>
    /\ sinceActive' = IF activeFileId # f THEN {} ELSE sinceActive
    /\ UNCHANGED <<activeMetadata, activeSheetIndex, isTextOnly, textContent,
                   localStorage, serverFiles, net>>

\* DataUpload handleUploadSuccess(fileId)
handleUploadSuccess(f) ==
    /\ Settled
    /\ activeFileId # f => BagCardinality(net) + 2 <= MaxInflight
    /\ f \in serverFiles
    /\ activeFileId' = f
    /\ dsEffectDue' = (activeFileId # f)
    /\ lastOp' = [op |-> "uploadSuccess", file |-> f]
    /\ UNCHANGED <<authVars, notifyVars, pageVars, lastToast>>
    /\ sinceActive' = IF activeFileId # f THEN {} ELSE sinceActive
    /\ UNCHANGED <<activeFileName, activeMetadata, activeSheetIndex, isTextOnly,
                   textContent, localStorage, serverFiles, net>>

\* fileApi.getStatus(id).then(...): the server knows the file
StatusOk(f) ==
    /\ Settled
    /\ BagIn(Req("status", f, Null), net)
    /\ f \in serverFiles
    /\ net' = Recv(net, Req("status", f, Null))
    /\ IF FileName(f) # ""
       THEN /\ activeFileName' = FileName(f)
            /\ localStorage' = [localStorage EXCEPT !["activeFileName"] = FileName(f)]
       ELSE UNCHANGED <<activeFileName, localStorage>>
    /\ lastOp' = [op |-> "statusOk", file |-> f]
    /\ UNCHANGED <<authVars, notifyVars, pageVars, lastToast>>
    /\ sinceActive' = IF f = activeFileId THEN sinceActive \cup {"status"}
                                          ELSE sinceActive
    /\ UNCHANGED <<activeFileId, activeMetadata, activeSheetIndex, isTextOnly,
                   textContent, dsEffectDue, serverFiles>>

\* what the catch of the status fetch does, whatever identifier it was for
StatusCatch ==
    /\ activeFileId' = Null
    /\ activeFileName' = Null
    /\ localStorage' = [localStorage EXCEPT !["activeFileId"] = Absent,
                                            !["activeFileName"] = Absent]
    /\ dsEffectDue' = (activeFileId # Null)

\* fileApi.getStatus(id).catch(...): 404 when the file is gone, or the
\* request fails for another reason (network error, timeout, 5xx)
StatusFail(f, why) ==
    /\ Settled
    /\ BagIn(Req("status", f, Null), net)
    /\ why = "notfound" => f \notin serverFiles
    /\ net' = Recv(net, Req("status", f, Null))
    /\ StatusCatch
    /\ lastOp' = [op |-> "statusFail", file |-> f, why |-> why, was |-> activeFileId]
    /\ UNCHANGED <<authVars, notifyVars, pageVars, lastToast>>
    /\ sinceActive' = IF f = activeFileId /\ why = "notfound" THEN {"notfound"}
                      ELSE IF activeFileId = Null THEN sinceActive ELSE {}
    /\ UNCHANGED <<activeMetadata, activeSheetIndex, isTextOnly, textContent,
                   serverFiles>>

\* processingApi.getResult(id).then(...)
ResultOk(f) ==
    /\ Settled
    /\ BagIn(Req("result", f, Null), net)
    /\ f \in serverFiles
    /\ net' = Recv(net, Req("result", f, Null))
    /\ isTextOnly' = (ResultOf(f).dataframes = 0)
    /\ textContent' = ResultOf(f).text_content
    /\ lastOp' = [op |-> "resultOk", file |-> f]
    /\ UNCHANGED <<authVars, notifyVars, pageVars, lastToast>>
    /\ sinceActive' = IF f = activeFileId THEN sinceActive \cup {"result"}
                                          ELSE sinceActive
    /\ UNCHANGED <<activeFileId, activeFileName, activeMetadata, activeSheetIndex,
                   localStorage, dsEffectDue, serverFiles>>

\* ResultFail with the catch of the status fetch in its place
ResultFail_ClearsTracker(f) ==
    /\ Settled
    /\ BagIn(Req("result", f, Null), net)
    /\ net' = Recv(net, Req("result", f, Null))
    /\ StatusCatch
    /\ lastOp' = [op |-> "resultFail", file |-> f]
    /\ sinceActive' = {}
    /\ UNCHANGED <<authVars, notifyVars, pageVars, lastToast>>
    /\ UNCHANGED <<activeMetadata, activeSheetIndex, isTextOnly, textContent,
                   serverFiles>>

\* processingApi.getResult(id).catch(...): logged and dropped
ResultFail(f) ==
    /\ Settled
    /\ BagIn(Req("result", f, Null), net)
    /\ net' = Recv(net, Req("result", f, Null))
    /\ lastOp' = [op |-> "resultFail", file |-> f]
    /\ UNCHANGED <<authVars, notifyVars, pageVars, lastToast>>
    /\ UNCHANGED sinceActive
    /\ UNCHANGED <<activeFileId, activeFileName, activeMetadata, activeSheetIndex,
                   isTextOnly, textContent, localStorage, dsEffectDue, serverFiles>>

\* handleDeleteFile up to the await: the request leaves with the
\* activeFileId of the render the handler belongs to
handleDeleteFile(f) ==
    /\ Settled
    /\ BagCardinality(net) < MaxInflight
    /\ net' = Send(net, Req("delete", f, activeFileId))
    /\ lastOp' = [op |-> "deleteClick", file |-> f]
    /\ UNCHANGED <<authVars, notifyVars, pageVars, lastToast>>
    /\ UNCHANGED sinceActive
    /\ UNCHANGED <<activeFileId, activeFileName, activeMetadata, activeSheetIndex,
                   isTextOnly, textContent, localStorage, dsEffectDue, serverFiles>>

\* handleDeleteFile after the await: the server removed the file
DeleteOk(f, captured) ==
    /\ Settled
    /\ BagIn(Req("delete", f, captured), net)
    /\ f \in serverFiles
    /\ serverFiles' = serverFiles \ {f}
    /\ net' = Recv(net, Req("delete", f, captured))
    /\ IF captured = f
       THEN /\ activeFileId' = Null
            /\ activeFileName' = Null
            /\ dsEffectDue' = (activeFileId # Null)
       ELSE UNCHANGED <<activeFileId, activeFileName, dsEffectDue>>
    /\ lastToast' = [type |-> "success", title |-> "Dataset Deleted"]
    /\ lastOp' = [op |-> "deleteOk", file |-> f, was |-> activeFileId]
    /\ UNCHANGED <<authVars, notifyVars, pageVars>>
    /\ sinceActive' = IF captured = f /\ activeFileId # Null THEN {} ELSE sinceActive
    /\ UNCHANGED <<activeMetadata, activeSheetIndex, isTextOnly, textContent,
                   localStorage>>

\* handleDeleteFile catch: the delete request failed
DeleteFail(f, captured) ==
    /\ Settled
    /\ BagIn(Req("delete", f, captured), net)
    /\ net' = Recv(net, Req("delete", f, captured))
    /\ lastToast' = [type |-> "error", title |-> "Deletion Failed"]
    /\ lastOp' = [op |-> "deleteFail", file |-> f]
    /\ UNCHANGED <<authVars, notifyVars, pageVars>>
    /\ UNCHANGED sinceActive
    /\ UNCHANGED <<activeFileId, activeFileName, activeMetadata, activeSheetIndex,
                   isTextOnly, textContent, localStorage, dsEffectDue, serverFiles>>

DsNext ==
    \/ RunDatasetEffect
    \/ \E f \in Files : selectFile(f)
    \/ \E f \in Files : handleUploadSuccess(f)
    \/ \E f \in Files : StatusOk(f)
    \/ \E f \in Files, why \in {"notfound", "error"} : StatusFail(f, why)
    \/ \E f \in Files : ResultOk(f)
    \/ \E f \in Files : ResultFail(f)
    \/ \E f \in Files : handleDeleteFile(f)
    \/ \E f \in Files, c \in Files \cup {Null} : DeleteOk(f, c)
    \/ \E f \in Files, c \in Files \cup {Null} : DeleteFail(f, c)

DatasetSpec == DsInit /\ [][DsNext]_vars

\* --------------------------------------------------- claims on the tracker
\* no status or processing-result response is still to be delivered
NoFetchInFlight ==
    \A f \in Files : ~BagIn(Req("status", f, Null), net)
                    /\ ~BagIn(Req("result", f, Null), net)

\* the tracker is in its null state, persisted copies included
NullState ==
    /\ activeFileId = Null
    /\ activeFileName = Null
    /\ localStorage["activeFileId"] = Absent
    /\ localStorage["activeFileName"] = Absent

\* C1: after switching from one identifier to another, once every status and
\* processing-result response has been delivered, the name, its persisted
\* copy, isTextOnly and textContent are those the server reported for the
\* identifier that is active, whatever the order the responses arrived in.
C1_FinalStateIsCurrentFile ==
    (Settled /\ NoFetchInFlight /\ activeFileId \in Files) =>
        /\ "status" \in sinceActive =>
              /\ activeFileName = FileName(activeFileId)
              /\ localStorage["activeFileName"] = FileName(activeFileId)
        /\ "result" \in sinceActive =>
              /\ isTextOnly = (ResultOf(activeFileId).dataframes = 0)
              /\ textContent = ResultOf(activeFileId).text_content

\* C2: a status-fetch failure about an identifier that is no longer the active
\* one leaves the active identifier and the persisted keys alone.
C2_StaleFailureIgnored ==
    [][(lastOp'.op = "statusFail" /\ activeFileId \in Files
          /\ lastOp'.file # activeFileId)
       => (activeFileId' = activeFileId /\ localStorage' = localStorage)]_vars

\* C3: in every settled state a null activeFileId comes with a null
\* activeFileName and with neither key present in localStorage.
C3_NullIdentifierMeansNullState ==
    (Settled /\ activeFileId = Null) => NullState

\* C4: once the server has answered 404 for the active identifier the tracker
\* is in its null state, and it stays there until setActiveFileId is called
\* with an identifier again.
C4_NotFoundResetsAndStays ==
    ("notfound" \in sinceActive) => NullState

\* ====================================================== the session manager
MaxAuthInflight == 2

\* the three calls that establish a session, the five that do not
SessionOps == {"login", "googleLogin", "verifyEmail"}
PlainOps == {"register", "resendVerification", "requestPasswordReset",
             "verifyResetCode", "confirmPasswordReset"}

\* title of toast.success / toast.error of each operation
SuccessTitle(op) ==
    CASE op = "login" -> "Welcome back!"
      [] op = "googleLogin" -> "Welcome back!"
      [] op = "verifyEmail" -> "Email Verified"
      [] op = "register" -> "Account Created"
      [] op = "resendVerification" -> "Verification Sent"
      [] op = "requestPasswordReset" -> "Reset Code Sent"
      [] op = "verifyResetCode" -> "Code Verified"
      [] op = "confirmPasswordReset" -> "Password Updated"

ErrorTitle(op) ==
    CASE op = "login" -> "Login Failed"
      [] op = "googleLogin" -> "Google Sign-In Failed"
      [] op = "verifyEmail" -> "Verification Failed"
      [] op = "register" -> "Registration Failed"
      [] op = "resendVerification" -> "Email Failed"
      [] op = "requestPasswordReset" -> "Reset Failed"
      [] op = "verifyResetCode" -> "Invalid Code"
      [] op = "confirmPasswordReset" -> "Update Failed"

\* isAuthenticated: !!token
isAuthenticated == token # Null

\* sessionStorage a previous page load of the tab can have left behind
PersistedSession ==
    { [token |-> Absent, user |-> Absent],
      [token |-> "t1",   user |-> Absent],
      [token |-> "t1",   user |-> JSONstringify("ann")],
      [token |-> "t1",   user |-> Corrupt] }

\* a request of the session manager: the operation, and for refreshCredits
\* and the chat stream the token and balance of the render whose closure runs
AuthReq(op, tok, bal) == [op |-> op, tok |-> tok, bal |-> bal]

\* AuthProvider right after construction, the mount effect still to run
AuthMount ==
    /\ sessionStorage \in PersistedSession
    /\ user = Null
    /\ token = GetItemOrNull(sessionStorage, "token")
    /\ loading = TRUE
    /\ activeBalance = 0
    /\ authEffectDue = TRUE
    /\ authNet = EmptyBag

\* a tracker at rest: nothing selected, or fA selected and confirmed
DatasetIdle ==
    /\ localStorage \in { [activeFileId |-> Absent, activeFileName |-> Absent],
                          [activeFileId |-> "fA", activeFileName |-> FileName("fA")] }
    /\ activeFileId = GetItemOrNull(localStorage, "activeFileId")
    /\ activeFileName = GetItemOrNull(localStorage, "activeFileName")
    /\ activeMetadata = Null
    /\ activeSheetIndex = 0
    /\ isTextOnly = FALSE
    /\ textContent = ""
    /\ dsEffectDue = FALSE
    /\ serverFiles = Files
    /\ net = EmptyBag
    /\ sinceActive = {}

AuthInit ==
    /\ AuthMount
    /\ DatasetIdle
    /\ NotifyMount
    /\ PagesMount
    /\ lastToast = NoToast
    /\ lastOp = [op |-> "mount"]

AuthSettled == ~authEffectDue

\* LogoutUpdates without setActiveBalance(0)
LogoutUpdates_KeepsBalance ==
    /\ token' = Null
    /\ user' = Null
    /\ activeBalance' = activeBalance
    /\ sessionStorage' = [sessionStorage EXCEPT !["token"] = Absent,
                                                !["user"] = Absent]
    /\ lastToast' = [type |-> "info", title |-> "Signed out"]

\* logout(), AuthContext.jsx:191-201: the session fields it assigns
\* logout that leaves the token in sessionStorage
LogoutUpdates_KeepsStoredToken ==
    /\ token' = Null
    /\ user' = Null
    /\ activeBalance' = 0
    /\ sessionStorage' = [sessionStorage EXCEPT !["user"] = Absent]
    /\ lastToast' = [type |-> "info", title |-> "Signed out"]

LogoutUpdates ==
    /\ token' = Null
    /\ user' = Null
    /\ activeBalance' = 0
    /\ sessionStorage' = [sessionStorage EXCEPT !["token"] = Absent,
                                                !["user"] = Absent]
    /\ lastToast' = [type |-> "info", title |-> "Signed out"]

\* the logout button (Sidebar, Landing, header menu), shown when signed in
logout ==
    /\ AuthSettled
    /\ ~loading
    /\ isAuthenticated
    /\ LogoutUpdates
    /\ authEffectDue' = (token # Null)
    /\ lastOp' = [op |-> "logout"]
    /\ UNCHANGED <<loading, authNet, dsVars, notifyVars, pageVars>>

\* refreshCredits() up to the await, run from the closure of a render in
\* which token = tok and activeBalance = bal: the requests in flight after it
refreshCredits(bag, tok, bal) ==
    IF tok = Null THEN bag ELSE Send(bag, AuthReq("credits", tok, bal))

\* initAuth whose catch only logs
initAuth_CatchKeepsSession ==
    /\ authEffectDue
    /\ loading' = FALSE
    /\ IF token = Null
       THEN /\ authEffectDue' = FALSE
            /\ lastOp' = [op |-> "initAuth", did |-> "nothing"]
            /\ UNCHANGED <<user, token, activeBalance, sessionStorage, authNet,
                           lastToast>>
       ELSE IF sessionStorage["user"] = Absent
       THEN /\ user' = DefaultUser
            /\ authEffectDue' = FALSE
            /\ lastOp' = [op |-> "initAuth", did |-> "defaultUser"]
            /\ UNCHANGED <<token, activeBalance, sessionStorage, authNet, lastToast>>
       ELSE IF JSONvalid(sessionStorage["user"])
       THEN /\ user' = JSONparse(sessionStorage["user"])
            /\ authNet' = refreshCredits(authNet, token, activeBalance)
            /\ authEffectDue' = FALSE
            /\ lastOp' = [op |-> "initAuth", did |-> "restored"]
            /\ UNCHANGED <<token, activeBalance, sessionStorage, lastToast>>
       ELSE /\ authEffectDue' = FALSE
            /\ lastOp' = [op |-> "initAuth", did |-> "logout"]
            /\ UNCHANGED <<user, token, activeBalance, sessionStorage, authNet,
                           lastToast>>
    /\ UNCHANGED <<dsVars, notifyVars, pageVars>>

\* initAuth with setLoading(false) inside the if (token) block
initAuth_LoadingOnlyWithToken ==
    /\ authEffectDue
    /\ loading' = (IF token = Null THEN loading ELSE FALSE)
    /\ IF token = Null
       THEN /\ authEffectDue' = FALSE
            /\ lastOp' = [op |-> "initAuth", did |-> "nothing"]
            /\ UNCHANGED <<user, token, activeBalance, sessionStorage, authNet,
                           lastToast>>
       ELSE IF sessionStorage["user"] = Absent
       THEN /\ user' = DefaultUser
            /\ authEffectDue' = FALSE
            /\ lastOp' = [op |-> "initAuth", did |-> "defaultUser"]
            /\ UNCHANGED <<token, activeBalance, sessionStorage, authNet, lastToast>>
       ELSE IF JSONvalid(sessionStorage["user"])
       THEN /\ user' = JSONparse(sessionStorage["user"])
            /\ authNet' = refreshCredits(authNet, token, activeBalance)
            /\ authEffectDue' = FALSE
            /\ lastOp' = [op |-> "initAuth", did |-> "restored"]
            /\ UNCHANGED <<token, activeBalance, sessionStorage, lastToast>>
       ELSE /\ LogoutUpdates
            /\ authEffectDue' = TRUE
            /\ lastOp' = [op |-> "initAuth", did |-> "logout"]
            /\ UNCHANGED authNet
    /\ UNCHANGED <<dsVars, notifyVars, pageVars>>

\* useEffect(..., [token]) running initAuth, AuthContext.jsx:30-50
initAuth ==
    /\ authEffectDue
    /\ loading' = FALSE
    /\ IF token = Null
       THEN /\ authEffectDue' = FALSE
            /\ lastOp' = [op |-> "initAuth", did |-> "nothing"]
            /\ UNCHANGED <<user, token, activeBalance, sessionStorage, authNet,
                           lastToast>>
       ELSE IF sessionStorage["user"] = Absent
       THEN /\ user' = DefaultUser
            /\ authEffectDue' = FALSE
            /\ lastOp' = [op |-> "initAuth", did |-> "defaultUser"]
            /\ UNCHANGED <<token, activeBalance, sessionStorage, authNet, lastToast>>
       ELSE IF JSONvalid(sessionStorage["user"])
       THEN /\ user' = JSONparse(sessionStorage["user"])
            /\ authNet' = refreshCredits(authNet, token, activeBalance)
            /\ authEffectDue' = FALSE
            /\ lastOp' = [op |-> "initAuth", did |-> "restored"]
            /\ UNCHANGED <<token, activeBalance, sessionStorage, lastToast>>
       ELSE /\ LogoutUpdates
            /\ authEffectDue' = TRUE
            /\ lastOp' = [op |-> "initAuth", did |-> "logout"]
            /\ UNCHANGED authNet
    /\ UNCHANGED <<dsVars, notifyVars, pageVars>>

\* an operation up to its await: the request leaves, nothing else changes
AuthCall(op) ==
    /\ AuthSettled
    /\ ~loading
    /\ BagCardinality(authNet) < MaxAuthInflight
    /\ authNet' = Send(authNet, AuthReq(op, Null, 0))
    /\ lastOp' = [op |-> op, out |-> "called"]
    /\ UNCHANGED <<user, token, loading, activeBalance, sessionStorage,
                   authEffectDue, lastToast, dsVars, notifyVars, pageVars>>

\* SessionOk that forgets to persist the user record
SessionOk_UserNotPersisted(op, t, u) ==
    /\ AuthSettled
    /\ BagIn(AuthReq(op, Null, 0), authNet)
    /\ authNet' = Recv(authNet, AuthReq(op, Null, 0))
    /\ token' = t
    /\ user' = u
    /\ sessionStorage' = [sessionStorage EXCEPT !["token"] = t]
    /\ lastToast' = [type |-> "success", title |-> SuccessTitle(op)]
    /\ authEffectDue' = (token # t)
    /\ lastOp' = [op |-> op, out |-> "true", t |-> t, u |-> u]
    /\ UNCHANGED <<loading, activeBalance, dsVars, notifyVars, pageVars>>

\* login / googleLogin / verifyEmail after the await: the server answered
\* with access_token t and user u
SessionOk(op, t, u) ==
    /\ AuthSettled
    /\ BagIn(AuthReq(op, Null, 0), authNet)
    /\ authNet' = Recv(authNet, AuthReq(op, Null, 0))
    /\ token' = t
    /\ user' = u
    /\ sessionStorage' = [token |-> t, user |-> JSONstringify(u)]
    /\ lastToast' = [type |-> "success", title |-> SuccessTitle(op)]
    /\ authEffectDue' = (token # t)
    /\ lastOp' = [op |-> op, out |-> "true", t |-> t, u |-> u]
    /\ UNCHANGED <<loading, activeBalance, dsVars, notifyVars, pageVars>>

\* AuthFail with a catch that signs the user out before rethrowing
AuthFail_SignsOut(op) ==
    /\ AuthSettled
    /\ BagIn(AuthReq(op, Null, 0), authNet)
    /\ authNet' = Recv(authNet, AuthReq(op, Null, 0))
    /\ token' = Null
    /\ user' = Null
    /\ sessionStorage' = [sessionStorage EXCEPT !["token"] = Absent,
                                                !["user"] = Absent]
    /\ authEffectDue' = (token # Null)
    /\ lastToast' = [type |-> "error", title |-> ErrorTitle(op)]
    /\ lastOp' = [op |-> op, out |-> "threw"]
    /\ UNCHANGED <<loading, activeBalance, dsVars, notifyVars, pageVars>>

\* the catch of every operation: toast.error, then throw err
AuthFail(op) ==
    /\ AuthSettled
    /\ BagIn(AuthReq(op, Null, 0), authNet)
    /\ authNet' = Recv(authNet, AuthReq(op, Null, 0))
    /\ lastToast' = [type |-> "error", title |-> ErrorTitle(op)]
    /\ lastOp' = [op |-> op, out |-> "threw"]
    /\ UNCHANGED <<user, token, loading, activeBalance, sessionStorage,
                   authEffectDue, dsVars, notifyVars, pageVars>>

\* PlainOk that persists a token of the answer without signing in
PlainOk_StoresToken(op) ==
    /\ AuthSettled
    /\ BagIn(AuthReq(op, Null, 0), authNet)
    /\ authNet' = Recv(authNet, AuthReq(op, Null, 0))
    /\ sessionStorage' = [sessionStorage EXCEPT !["token"] = "t2"]
    /\ lastToast' = [type |-> "success", title |-> SuccessTitle(op)]
    /\ lastOp' = [op |-> op, out |-> "true"]
    /\ UNCHANGED <<user, token, loading, activeBalance, authEffectDue, dsVars, notifyVars, pageVars>>

\* PlainOk that takes the answer for a session, as verifyEmail does
PlainOk_SignsIn(op) ==
    /\ AuthSettled
    /\ BagIn(AuthReq(op, Null, 0), authNet)
    /\ authNet' = Recv(authNet, AuthReq(op, Null, 0))
    /\ token' = "t1"
    /\ sessionStorage' = [sessionStorage EXCEPT !["token"] = "t1"]
    /\ authEffectDue' = (token # "t1")
    /\ lastToast' = [type |-> "success", title |-> SuccessTitle(op)]
    /\ lastOp' = [op |-> op, out |-> "true"]
    /\ UNCHANGED <<user, loading, activeBalance, dsVars, notifyVars, pageVars>>

\* register and the four verification / reset calls after the await
PlainOk(op) ==
    /\ AuthSettled
    /\ BagIn(AuthReq(op, Null, 0), authNet)
    /\ authNet' = Recv(authNet, AuthReq(op, Null, 0))
    /\ lastToast' = [type |-> "success", title |-> SuccessTitle(op)]
    /\ lastOp' = [op |-> op, out |-> "true"]
    /\ UNCHANGED <<user, token, loading, activeBalance, sessionStorage,
                   authEffectDue, dsVars, notifyVars, pageVars>>

\* the Login and Register pages are routed to only while signed out; the
\* verification and reset pages are public
login == ~isAuthenticated /\ AuthCall("login")
loginOk == \E t \in Tokens, u \in Users : SessionOk("login", t, u)
loginFail == AuthFail("login")
googleLogin == ~isAuthenticated /\ AuthCall("googleLogin")
googleLoginOk == \E t \in Tokens, u \in Users : SessionOk("googleLogin", t, u)
googleLoginFail == AuthFail("googleLogin")
verifyEmail == AuthCall("verifyEmail")
verifyEmailOk == \E t \in Tokens, u \in Users : SessionOk("verifyEmail", t, u)
verifyEmailFail == AuthFail("verifyEmail")
register == ~isAuthenticated /\ AuthCall("register")
registerOk == PlainOk("register")
registerFail == AuthFail("register")
resendVerification == AuthCall("resendVerification")
resendVerificationOk == PlainOk("resendVerification")
resendVerificationFail == AuthFail("resendVerification")
requestPasswordReset == AuthCall("requestPasswordReset")
requestPasswordResetOk == PlainOk("requestPasswordReset")
requestPasswordResetFail == AuthFail("requestPasswordReset")
verifyResetCode == AuthCall("verifyResetCode")
verifyResetCodeOk == PlainOk("verifyResetCode")
verifyResetCodeFail == AuthFail("verifyResetCode")
confirmPasswordReset == AuthCall("confirmPasswordReset")
confirmPasswordResetOk == PlainOk("confirmPasswordReset")
confirmPasswordResetFail == AuthFail("confirmPasswordReset")

\* Chatbot handleSend with a dataset selected: the stream request leaves;
\* the handler holds the refreshCredits of the render it was created in
handleSend ==
    /\ AuthSettled
    /\ ~loading
    /\ isAuthenticated
    /\ activeFileId # Null
    /\ BagCardinality(authNet) < MaxAuthInflight
    /\ authNet' = Send(authNet, AuthReq("stream", token, activeBalance))
    /\ lastOp' = [op |-> "handleSend"]
    /\ UNCHANGED <<user, token, loading, activeBalance, sessionStorage,
                   authEffectDue, lastToast, dsVars, notifyVars, pageVars>>

\* Chatbot handleSend after the stream ended: refreshCredits() of that render
StreamDone(tok, bal) ==
    /\ AuthSettled
    /\ BagIn(AuthReq("stream", tok, bal), authNet)
    /\ authNet' = refreshCredits(Recv(authNet, AuthReq("stream", tok, bal)), tok, bal)
    /\ lastOp' = [op |-> "streamDone", ret |-> IF tok = Null THEN 0 ELSE -1]
    /\ UNCHANGED <<user, token, loading, activeBalance, sessionStorage,
                   authEffectDue, lastToast, dsVars, notifyVars, pageVars>>

\* Chatbot handleSend catch: the stream could not be started or read
StreamFail(tok, bal) ==
    /\ AuthSettled
    /\ BagIn(AuthReq("stream", tok, bal), authNet)
    /\ authNet' = Recv(authNet, AuthReq("stream", tok, bal))
    /\ lastOp' = [op |-> "streamFail"]
    /\ UNCHANGED <<user, token, loading, activeBalance, sessionStorage,
                   authEffectDue, lastToast, dsVars, notifyVars, pageVars>>

\* const balance = data.active_tokens || 0
BalanceOf(v) == IF Len(v) = 0 \/ v[1] = 0 THEN 0 ELSE v[1]

\* refreshCredits() after the await: the credits fetch answered
refreshCreditsOk(tok, bal, v) ==
    /\ AuthSettled
    /\ BagIn(AuthReq("credits", tok, bal), authNet)
    /\ authNet' = Recv(authNet, AuthReq("credits", tok, bal))
    /\ activeBalance' = BalanceOf(v)
    /\ lastOp' = [op |-> "refreshCredits", out |-> "ok", ret |-> BalanceOf(v)]
    /\ UNCHANGED <<user, token, loading, sessionStorage, authEffectDue,
                   lastToast, dsVars, notifyVars, pageVars>>

\* what refreshCredits() returns from its catch: the activeBalance of the
\* render the function was created in
StaleBalance(bal) == bal

\* refreshCredits() catch: the credits fetch failed
refreshCreditsFail(tok, bal) ==
    /\ AuthSettled
    /\ BagIn(AuthReq("credits", tok, bal), authNet)
    /\ authNet' = Recv(authNet, AuthReq("credits", tok, bal))
    /\ lastOp' = [op |-> "refreshCredits", out |-> "failed",
                  ret |-> StaleBalance(bal)]
    /\ UNCHANGED <<user, token, loading, activeBalance, sessionStorage,
                   authEffectDue, lastToast, dsVars, notifyVars, pageVars>>

Balances == {BalanceOf(v) : v \in CreditValues}

AuthNext ==
    \/ initAuth
    \/ logout
    \/ login \/ loginOk \/ loginFail
    \/ googleLogin \/ googleLoginOk \/ googleLoginFail
    \/ verifyEmail \/ verifyEmailOk \/ verifyEmailFail
    \/ register \/ registerOk \/ registerFail
    \/ resendVerification \/ resendVerificationOk \/ resendVerificationFail
    \/ requestPasswordReset \/ requestPasswordResetOk \/ requestPasswordResetFail
    \/ verifyResetCode \/ verifyResetCodeOk \/ verifyResetCodeFail
    \/ confirmPasswordReset \/ confirmPasswordResetOk \/ confirmPasswordResetFail
    \/ handleSend
    \/ \E tok \in Tokens \cup {Null}, bal \in Balances : StreamDone(tok, bal)
    \/ \E tok \in Tokens \cup {Null}, bal \in Balances : StreamFail(tok, bal)
    \/ \E tok \in Tokens, bal \in Balances, v \in CreditValues :
           refreshCreditsOk(tok, bal, v)
    \/ \E tok \in Tokens, bal \in Balances : refreshCreditsFail(tok, bal)

AuthSpec == AuthInit /\ [][AuthNext]_vars

\* ------------------------------------------- claims on the session manager
\* C5: after logout() returns, sessionStorage holds neither token nor user and
\* localStorage holds neither activeFileId nor activeFileName.
C5_LogoutLeavesNoPersistedKeys ==
    lastOp.op = "logout" =>
        /\ sessionStorage["token"] = Absent
        /\ sessionStorage["user"] = Absent
        /\ localStorage["activeFileId"] = Absent
        /\ localStorage["activeFileName"] = Absent

C7_SuccessEstablishesSession ==
    (lastOp.op \in SessionOps /\ lastOp.out = "true") =>
        /\ token = lastOp.t
        /\ sessionStorage["token"] = lastOp.t
        /\ user = lastOp.u
        /\ sessionStorage["user"] = JSONstringify(lastOp.u)
        /\ JSONvalid(sessionStorage["user"])
        /\ JSONparse(sessionStorage["user"]) = lastOp.u
        /\ isAuthenticated

\* googleLogin has succeeded with a new token and another user than before
C7_Witness ==
    /\ lastOp.op = "googleLogin"
    /\ lastOp.out = "true"
    /\ lastOp.t = "t2"
    /\ lastOp.u = "bob"
    /\ lastToast.title = "Welcome back!"

\* C8: isAuthenticated turns true only in a successful login, googleLogin or
\* verifyEmail, and turns false only in a logout, the one initAuth runs after
\* a failed session restore included.
C8_AuthenticationChangesOnlyBySignInAndLogout ==
    [][/\ (~isAuthenticated /\ isAuthenticated')
            => (lastOp'.op \in SessionOps /\ lastOp'.out = "true")
       /\ (isAuthenticated /\ ~isAuthenticated')
            => \/ lastOp'.op = "logout"
               \/ (lastOp'.op = "initAuth" /\ lastOp'.did = "logout")]_vars

\* a failed session restore has signed the user out
C8_Witness ==
    /\ lastOp.op = "initAuth"
    /\ lastOp.did = "logout"
    /\ ~isAuthenticated
    /\ sessionStorage["token"] = Absent

\* C9: when the credits fetch fails, refreshCredits() returns the value
\* activeBalance has at that moment.
C9_FailedRefreshReturnsCurrentBalance ==
    (lastOp.op = "refreshCredits" /\ lastOp.out = "failed") =>
        lastOp.ret = activeBalance

\* C10: whenever token is null, activeBalance is 0 and user is null.
C10_SignedOutMeansCleared ==
    token = Null => (activeBalance = 0 /\ user = Null)

\* the effect React has scheduled does run
AuthFairSpec == AuthSpec /\ WF_vars(initAuth)

\* a step that is logout(): the button, or initAuth after a failed restore
IsLogoutStep ==
    \/ lastOp'.op = "logout"
    \/ (lastOp'.op = "initAuth" /\ lastOp'.did = "logout")

\* C11: logout() is one step that sends no request, and right after it
\* token = null, user = null, activeBalance = 0 and isAuthenticated is false,
\* whatever the state before.
C11_LogoutClearsSessionAtOnce ==
    [][IsLogoutStep =>
         /\ token' = Null
         /\ user' = Null
         /\ activeBalance' = 0
         /\ ~isAuthenticated'
         /\ authNet' = authNet]_vars

\* logout was called with a request still in flight
C11_Witness ==
    /\ lastOp.op = "logout"
    /\ token = Null
    /\ BagCardinality(authNet) > 0

\* C12: register, resendVerification, requestPasswordReset, verifyResetCode,
\* confirmPasswordReset and refreshCredits change neither token, user nor the
\* sessionStorage keys, on success and on failure; a successful register
\* leaves isAuthenticated as it was.
C12_PlainCallsLeaveSessionAlone ==
    [][(lastOp'.op \in PlainOps \cup {"refreshCredits", "streamDone"})
       => UNCHANGED <<token, user, sessionStorage>>]_vars

\* register has succeeded and nobody is signed in
C12_Witness ==
    /\ lastOp.op = "register"
    /\ lastOp.out = "true"
    /\ ~isAuthenticated
    /\ sessionStorage["token"] = Absent

\* C13: loading is true at the start, false once the first initAuth has run,
\* and never true again.
C13_LoadingOnlyDuringRestore ==
    /\ loading = TRUE
    /\ <>(loading = FALSE)
    /\ [][loading = FALSE => loading' = FALSE]_vars

\* the restore is over and a later verifyEmail has signed a user in
C13_Witness ==
    /\ loading = FALSE
    /\ lastOp.op = "verifyEmail"
    /\ lastOp.out = "true"

\* ------------------------------------------- more claims on the tracker
\* isTextOnly and textContent as processingApi.getResult(f).then sets them
ResultValues(f) == <<ResultOf(f).dataframes = 0, ResultOf(f).text_content>>

\* isTextOnly and textContent as useState initialises them
EmptyValues == <<FALSE, "">>

\* C14: once the effect has run for activeFileId = null, activeFileName and
\* activeMetadata are null, activeSheetIndex is 0, isTextOnly is false,
\* textContent is '' and both localStorage keys are absent.
C14_NullClearsEveryDependentField ==
    (Settled /\ activeFileId = Null /\ lastOp.op = "effect") =>
        /\ activeFileName = Null
        /\ activeMetadata = Null
        /\ activeSheetIndex = 0
        /\ <<isTextOnly, textContent>> = EmptyValues
        /\ localStorage["activeFileId"] = Absent
        /\ localStorage["activeFileName"] = Absent

\* C15: while no processing result has been applied for the active identifier
\* since it became active, isTextOnly and textContent do not hold the values
\* of another identifier's processing result.
C15_NoResultOfAnotherFile ==
    (activeFileId \in Files /\ "result" \notin sinceActive) =>
        \A g \in Files \ {activeFileId} :
            ResultValues(g) # EmptyValues =>
                <<isTextOnly, textContent>> # ResultValues(g)

\* C16: the failure of a processing-result fetch changes neither activeFileId,
\* activeFileName nor the two localStorage keys.
C16_ResultFailureChangesNothing ==
    [][lastOp'.op = "resultFail"
       => UNCHANGED <<activeFileId, activeFileName, localStorage>>]_vars

\* the processing-result fetch of the active, named and persisted file failed
C16_Witness ==
    /\ lastOp.op = "resultFail"
    /\ lastOp.file = activeFileId
    /\ activeFileName = FileName(activeFileId)
    /\ localStorage["activeFileId"] = activeFileId

\* C17: a status fetch that fails for another reason than 404 changes neither
\* activeFileId, activeFileName nor the persisted keys.
C17_OnlyNotFoundClears ==
    [][(lastOp'.op = "statusFail" /\ lastOp'.why = "error")
       => UNCHANGED <<activeFileId, activeFileName, localStorage>>]_vars

\* ================================================= the notification bridge
\* at most this many addNotification calls, and this many clock ticks
MaxAdds == 6
MaxClock == 1

\* [newNotification, ...prev].slice(0, 5)
HistoryLimit == 5

Min(a, b) == IF a < b THEN a ELSE b

\* Array.prototype.slice(from, to) for 0 <= from <= to
Slice(s, from, to) == SubSeq(s, from + 1, Min(to, Len(s)))

\* the toast kinds, and the messages and options the pages pass
ToastKinds == {"success", "error", "info", "warning"}
Messages == {"m1"}
NoOptions == [none |-> TRUE]
ToastOptions == {[description |-> "d1"]}

\* notifications handed to addNotification without a toast
DirectNotifications ==
    {[type |-> "info", title |-> "note", description |-> Undefined]}

\* options?.description
Description(options) ==
    IF options = NoOptions THEN Undefined ELSE options.description

\* { id: Date.now(), timestamp: new Date(), ...notification }
NewNotification(notification) ==
    notification @@ [id |-> now, timestamp |-> now]

NotifyInit ==
    /\ NotifyMount
    /\ PagesMount
    /\ SessionIdle
    /\ DatasetIdle
    /\ localStorage["activeFileId"] = Absent
    /\ lastToast = NoToast
    /\ lastOp = [op |-> "mount"]

\* AddNotification that appends the new record before slicing
AddNotification_Appends(notification) ==
    /\ added < MaxAdds
    /\ notifications' =
           Slice(notifications \o <<NewNotification(notification)>>, 0, HistoryLimit)
    /\ unreadCount' = unreadCount + 1
    /\ added' = added + 1
    /\ sinceRead' = sinceRead + 1
    /\ UNCHANGED now

\* AddNotification that counts the unread records of the history
AddNotification_CountsHistory(notification) ==
    /\ added < MaxAdds
    /\ notifications' =
           Slice(<<NewNotification(notification)>> \o notifications, 0, HistoryLimit)
    /\ unreadCount' = Min(unreadCount + 1, HistoryLimit)
    /\ added' = added + 1
    /\ sinceRead' = sinceRead + 1
    /\ UNCHANGED now

\* addNotification(notification), main.jsx:214-226
AddNotification(notification) ==
    /\ added < MaxAdds
    /\ notifications' =
           Slice(<<NewNotification(notification)>> \o notifications, 0, HistoryLimit)
    /\ unreadCount' = unreadCount + 1
    /\ added' = added + 1
    /\ sinceRead' = sinceRead + 1
    /\ UNCHANGED now

\* addNotification called by a consumer of the context
addNotification(notification) ==
    /\ AddNotification(notification)
    /\ lastOp' = [op |-> "addNotification", rec |-> NewNotification(notification)]
    /\ UNCHANGED <<dsVars, authVars, pageVars, lastToast>>

\* toast that hands addNotification no description
toast_DropsDescription(kind, message, options) ==
    /\ lastToast' = [type |-> kind, title |-> message]
    /\ AddNotification([type |-> kind, title |-> message,
                        description |-> Undefined])
    /\ lastOp' = [op |-> "toast", kind |-> kind, message |-> message,
                  options |-> options,
                  rec |-> NewNotification([type |-> kind, title |-> message,
                                           description |-> Undefined])]
    /\ UNCHANGED <<dsVars, authVars, pageVars>>

\* toast.<kind>(message, options): the sonner toast, then addNotification
toast(kind, message, options) ==
    /\ lastToast' = [type |-> kind, title |-> message]
    /\ AddNotification([type |-> kind, title |-> message,
                        description |-> Description(options)])
    /\ lastOp' = [op |-> "toast", kind |-> kind, message |-> message,
                  options |-> options,
                  rec |-> NewNotification([type |-> kind, title |-> message,
                                           description |-> Description(options)])]
    /\ UNCHANGED <<dsVars, authVars, pageVars>>

toast_success(message, options) == toast("success", message, options)
toast_error(message, options) == toast("error", message, options)
toast_info(message, options) == toast("info", message, options)
toast_warning(message, options) == toast("warning", message, options)

\* markAllAsRead that also empties the history
markAllAsRead_ClearsHistory ==
    /\ unreadCount' = 0
    /\ notifications' = << >>
    /\ sinceRead' = 0
    /\ lastOp' = [op |-> "markAllAsRead"]
    /\ UNCHANGED <<now, added, dsVars, authVars, pageVars, lastToast>>

\* markAllAsRead(), main.jsx:228-230
markAllAsRead ==
    /\ unreadCount' = 0
    /\ sinceRead' = 0
    /\ lastOp' = [op |-> "markAllAsRead"]
    /\ UNCHANGED <<notifications, now, added, dsVars, authVars, pageVars, lastToast>>

\* time passes: Date.now() reads a later millisecond
Tick ==
    /\ now < MaxClock
    /\ now' = now + 1
    /\ lastOp' = [op |-> "tick"]
    /\ UNCHANGED <<notifications, unreadCount, added, sinceRead, dsVars,
                   authVars, pageVars, lastToast>>

NotifyNext ==
    \/ \E n \in DirectNotifications : addNotification(n)
    \/ \E m \in Messages, o \in ToastOptions : toast_success(m, o)
    \/ \E m \in Messages, o \in ToastOptions : toast_error(m, o)
    \/ \E m \in Messages, o \in ToastOptions : toast_info(m, o)
    \/ \E m \in Messages, o \in ToastOptions : toast_warning(m, o)
    \/ markAllAsRead
    \/ Tick

NotifySpec == NotifyInit /\ [][NotifyNext]_vars

\* a step that calls addNotification, directly or through toast
IsAddStep == lastOp'.op \in {"addNotification", "toast"}

\* C18: after n addNotification calls the history has min(5, n) records: each
\* call puts its record first and moves the others one place down, the sixth
\* (oldest) dropping out; nothing else changes the history.
C18_HistoryIsTheFiveNewest ==
    /\ [](Len(notifications) = Min(HistoryLimit, added))
    /\ [][IF IsAddStep
          THEN /\ notifications'[1] = lastOp'.rec
               /\ \A i \in 2..Len(notifications') :
                      notifications'[i] = notifications[i - 1]
          ELSE notifications' = notifications]_vars

\* a sixth record was added to a full history
C18_Witness ==
    /\ added = HistoryLimit + 1
    /\ Len(notifications) = HistoryLimit
    /\ lastOp.op = "toast"
    /\ notifications[1] = lastOp.rec

\* C19: unreadCount is the number of addNotification calls since the last
\* markAllAsRead; it turns zero only in markAllAsRead.
C19_UnreadCountsAdditions ==
    /\ [](unreadCount = sinceRead)
    /\ [][(unreadCount > 0 /\ unreadCount' = 0)
          => lastOp'.op = "markAllAsRead"]_vars

\* six unread additions while the history holds five records
C19_Witness ==
    /\ unreadCount = HistoryLimit + 1
    /\ Len(notifications) = HistoryLimit

\* C20: markAllAsRead() sets unreadCount to 0 and leaves the history as it is.
C20_MarkAllAsReadKeepsHistory ==
    [][lastOp'.op = "markAllAsRead"
       => (unreadCount' = 0 /\ notifications' = notifications)]_vars

\* markAllAsRead was called on a full history
C20_Witness ==
    /\ lastOp.op = "markAllAsRead"
    /\ unreadCount = 0
    /\ Len(notifications) = HistoryLimit

\* C21: toast.k(message, options) fires the transient toast of kind k with
\* that message, puts one record first in the history whose type is k, whose
\* title is message and whose description is options.description, and raises
\* unreadCount by one.
C21_ToastRecordsWhatItShows ==
    [][lastOp'.op = "toast"
       => /\ lastOp'.kind \in ToastKinds
          /\ lastToast' = [type |-> lastOp'.kind, title |-> lastOp'.message]
          /\ added' = added + 1
          /\ notifications'[1].type = lastOp'.kind
          /\ notifications'[1].title = lastOp'.message
          /\ notifications'[1].description = lastOp'.options.description
          /\ Slice(notifications', 1, HistoryLimit) =
                 Slice(notifications, 0, HistoryLimit - 1)
          /\ unreadCount' = unreadCount + 1]_vars

\* a warning toast was recorded on top of an earlier record
C21_Witness ==
    /\ lastOp.op = "toast"
    /\ lastOp.kind = "warning"
    /\ Len(notifications) > 1
    /\ notifications[1].type = "warning"
    /\ notifications[1].description = "d1"

\* C22: the records of the history have different ids, and a record added
\* later has a larger id, also when the clock did not advance in between.
C22_IdsUniqueAndIncreasing ==
    \A i, j \in 1..Len(notifications) :
        i < j => notifications[i].id > notifications[j].id

\* ============================== the ForgotPassword page, new-password step
\* newPassword.length < 6
MinPasswordLength == 6

\* a string of n characters c
Chars(n, c) == [i \in 1..n |-> c]

\* what the user types into the two password fields
Passwords ==
    {Chars(0, "a"), Chars(5, "a"), Chars(6, "a"), Chars(6, "b"), Chars(7, "a")}

\* err.response?.data?.detail of a rejected confirmPasswordReset
ResetDetails == {Undefined, "Invalid or expired code"}

\* the session without a signed-in user, at rest
SignedOutIdle ==
    /\ token = Null
    /\ user = Null
    /\ loading = FALSE
    /\ activeBalance = 0
    /\ sessionStorage = [token |-> Absent, user |-> Absent]
    /\ authEffectDue = FALSE
    /\ authNet = EmptyBag

\* /forgot-password is a public route: the page is shown with or without a
\* session; step 3 has been reached
ResetInit ==
    /\ ForgotPasswordMount
    /\ ApiIdle
    /\ UploaderMount
    /\ PaymentIdle
    /\ SignedOutIdle \/ SessionIdle
    /\ NotifyMount
    /\ DatasetIdle
    /\ localStorage["activeFileId"] = Absent
    /\ lastToast = NoToast
    /\ lastOp = [op |-> "mount"]

\* onChange of the new-password field
setNewPassword(p) ==
    /\ ~fpNavigated
    /\ newPassword' = p
    /\ lastOp' = [op |-> "setNewPassword"]
    /\ UNCHANGED <<confirmPassword, fpError, fpSuccess, fpLoading, fpNavigated,
                   dsVars, authVars, notifyVars, apiVars, upVars, payVars, lastToast>>

\* onChange of the confirmation field
setConfirmPassword(p) ==
    /\ ~fpNavigated
    /\ confirmPassword' = p
    /\ lastOp' = [op |-> "setConfirmPassword"]
    /\ UNCHANGED <<newPassword, fpError, fpSuccess, fpLoading, fpNavigated,
                   dsVars, authVars, notifyVars, apiVars, upVars, payVars, lastToast>>

\* handleResetPassword without the comparison of the two copies
handleResetPassword_SkipsMatch ==
    /\ ~fpNavigated
    /\ ~fpLoading
    /\ newPassword # << >>
    /\ confirmPassword # << >>
    /\ IF Len(newPassword) < MinPasswordLength
       THEN /\ fpError' = "Password must be at least 6 characters"
            /\ lastOp' = [op |-> "handleResetPassword", sent |-> FALSE]
            /\ UNCHANGED <<fpLoading, authNet>>
       ELSE /\ fpError' = ""
            /\ fpLoading' = TRUE
            /\ authNet' = Send(authNet, AuthReq("confirmPasswordReset", Null, 0))
            /\ lastOp' = [op |-> "handleResetPassword", sent |-> TRUE]
    /\ UNCHANGED <<newPassword, confirmPassword, fpSuccess, fpNavigated, user,
                   token, loading, activeBalance, sessionStorage, authEffectDue,
                   dsVars, notifyVars, apiVars, upVars, payVars, lastToast>>

\* handleResetPassword up to the await: the form is submitted (both fields
\* are required, the button is disabled while loading)
handleResetPassword ==
    /\ ~fpNavigated
    /\ ~fpLoading
    /\ newPassword # << >>
    /\ confirmPassword # << >>
    /\ IF Len(newPassword) < MinPasswordLength
       THEN /\ fpError' = "Password must be at least 6 characters"
            /\ lastOp' = [op |-> "handleResetPassword", sent |-> FALSE]
            /\ UNCHANGED <<fpLoading, authNet>>
       ELSE IF newPassword # confirmPassword
       THEN /\ fpError' = "Passwords do not match"
            /\ lastOp' = [op |-> "handleResetPassword", sent |-> FALSE]
            /\ UNCHANGED <<fpLoading, authNet>>
       ELSE /\ fpError' = ""
            /\ fpLoading' = TRUE
            /\ authNet' = Send(authNet, AuthReq("confirmPasswordReset", Null, 0))
            /\ lastOp' = [op |-> "handleResetPassword", sent |-> TRUE]
    /\ UNCHANGED <<newPassword, confirmPassword, fpSuccess, fpNavigated, user,
                   token, loading, activeBalance, sessionStorage, authEffectDue,
                   dsVars, notifyVars, apiVars, upVars, payVars, lastToast>>

\* the request succeeded: confirmPasswordReset toasts and returns, the page
\* shows its success text and starts the timer of the navigation
handleResetPasswordOk ==
    /\ BagIn(AuthReq("confirmPasswordReset", Null, 0), authNet)
    /\ authNet' = Recv(authNet, AuthReq("confirmPasswordReset", Null, 0))
    /\ lastToast' = [type |-> "success",
                     title |-> SuccessTitle("confirmPasswordReset")]
    /\ fpSuccess' = "Password reset successfully!"
    /\ fpLoading' = FALSE
    /\ lastOp' = [op |-> "handleResetPasswordOk"]
    /\ UNCHANGED <<newPassword, confirmPassword, fpError, fpNavigated, user,
                   token, loading, activeBalance, sessionStorage, authEffectDue,
                   dsVars, notifyVars, apiVars, upVars, payVars>>

\* the request failed: confirmPasswordReset toasts and rethrows, the page
\* shows the detail of the response or its own text
handleResetPasswordFail(detail) ==
    /\ BagIn(AuthReq("confirmPasswordReset", Null, 0), authNet)
    /\ authNet' = Recv(authNet, AuthReq("confirmPasswordReset", Null, 0))
    /\ lastToast' = [type |-> "error",
                     title |-> ErrorTitle("confirmPasswordReset")]
    /\ fpError' = IF detail # Undefined THEN detail
                  ELSE "Failed to reset password. Please try again."
    /\ fpLoading' = FALSE
    /\ lastOp' = [op |-> "handleResetPasswordFail"]
    /\ UNCHANGED <<newPassword, confirmPassword, fpSuccess, fpNavigated, user,
                   token, loading, activeBalance, sessionStorage, authEffectDue,
                   dsVars, notifyVars, apiVars, upVars, payVars>>

\* the timer set after the success: navigate('/login')
navigateToLogin ==
    /\ ~fpNavigated
    /\ fpSuccess # ""
    /\ fpNavigated' = TRUE
    /\ lastOp' = [op |-> "navigate"]
    /\ UNCHANGED <<newPassword, confirmPassword, fpError, fpSuccess, fpLoading,
                   dsVars, authVars, notifyVars, apiVars, upVars, payVars, lastToast>>

ResetNext ==
    \/ \E p \in Passwords : setNewPassword(p)
    \/ \E p \in Passwords : setConfirmPassword(p)
    \/ handleResetPassword
    \/ handleResetPasswordOk
    \/ \E detail \in ResetDetails : handleResetPasswordFail(detail)
    \/ navigateToLogin

ResetSpec == ResetInit /\ [][ResetNext]_vars

\* the confirmPasswordReset requests in flight
ResetRequests == CopiesIn(AuthReq("confirmPasswordReset", Null, 0), authNet)

\* C23: a submit of the new-password step sends the confirmPasswordReset
\* request exactly when the new password has at least 6 characters and equals
\* the confirmation; otherwise it sets a validation error and sends nothing;
\* no other step sends that request.
C23_ResetValidatedBeforeRequest ==
    [][/\ lastOp'.op = "handleResetPassword"
          => IF Len(newPassword) >= 6 /\ newPassword = confirmPassword
             THEN ResetRequests' = ResetRequests + 1
             ELSE authNet' = authNet /\ fpError' # ""
       /\ ResetRequests' > ResetRequests
          => lastOp'.op = "handleResetPassword"]_vars

\* a submit of two different six-character passwords was refused locally
C23_Witness ==
    /\ lastOp.op = "handleResetPassword"
    /\ Len(newPassword) = 6
    /\ newPassword # confirmPassword
    /\ fpError = "Passwords do not match"
    /\ authNet = EmptyBag

\* ============================================== the shared API client
\* every component but the pages at rest, signed in
AppIdle ==
    /\ SessionIdle
    /\ DatasetIdle
    /\ localStorage["activeFileId"] = Absent
    /\ NotifyMount
    /\ lastToast = NoToast

\* a || b of JavaScript on strings and undefined
Truthy(v) == v # Undefined /\ v # ""
Or(a, b) == IF Truthy(a) THEN a ELSE b

\* the texts a response body or a transport error can carry
BodyTexts == {Undefined, "", "Incorrect email or password", "Not allowed"}
ErrorMessages == {Undefined, "", "Network Error", "timeout exceeded"}

\* the errors axios hands to the rejection handler: with a response (its body
\* has detail and message, possibly absent) or without one
ApiErrors ==
    { [hasResponse |-> TRUE, detail |-> d, bodyMessage |-> b, message |-> m,
       friendlyMessage |-> Undefined] :
          d \in BodyTexts, b \in BodyTexts, m \in ErrorMessages }
    \cup
    { [hasResponse |-> FALSE, detail |-> Undefined, bodyMessage |-> Undefined,
       message |-> m, friendlyMessage |-> Undefined] : m \in ErrorMessages }

\* a call through apiClient is in flight and will be answered
ApiInit ==
    /\ AppIdle
    /\ ForgotPasswordMount
    /\ UploaderMount
    /\ PaymentIdle
    /\ apiOutcome \in {"pending", "failing"}
    /\ IF apiOutcome = "failing"
       THEN apiError \in ApiErrors
       ELSE apiError = [hasResponse |-> FALSE, detail |-> Undefined,
                        bodyMessage |-> Undefined, message |-> Undefined,
                        friendlyMessage |-> Undefined]
    /\ lastOp = [op |-> "mount"]

\* the message with ?? in place of ||: only undefined falls through
FriendlyMessage_Nullish(error) ==
    LET pick(a, b) == IF a # Undefined THEN a ELSE b
    IN  pick(error.detail, pick(error.bodyMessage,
             pick(error.message, "An unexpected error occurred")))

\* error.response?.data?.detail || error.response?.data?.message
\*   || error.message || 'An unexpected error occurred'
FriendlyMessage(error) ==
    Or(error.detail, Or(error.bodyMessage,
       Or(error.message, "An unexpected error occurred")))

\* response interceptor, fulfilled: the response is passed on
responseFulfilled ==
    /\ apiOutcome = "pending"
    /\ apiOutcome' = "resolved"
    /\ lastOp' = [op |-> "responseFulfilled"]
    /\ UNCHANGED <<apiError, fpVars, upVars, payVars, dsVars, authVars, notifyVars, lastToast>>

\* response interceptor, rejected: friendlyMessage is attached and the error
\* is rejected onward
responseRejected ==
    /\ apiOutcome = "failing"
    /\ apiError' = [apiError EXCEPT !.friendlyMessage = FriendlyMessage(apiError)]
    /\ apiOutcome' = "rejected"
    /\ lastOp' = [op |-> "responseRejected"]
    /\ UNCHANGED <<fpVars, upVars, payVars, dsVars, authVars, notifyVars, lastToast>>

ApiNext ==
    \/ responseFulfilled
    \/ responseRejected

ApiSpec == ApiInit /\ [][ApiNext]_vars

\* C24: a call that failed is rejected onward with a friendlyMessage that is
\* a non-empty text: the detail of the response body if it has one, else the
\* message of the body, else the message of the transport error, else
\* 'An unexpected error occurred'.
C24_RejectedCallCarriesMessage ==
    /\ [](apiOutcome = "rejected" =>
            LET has(v) == v # Undefined /\ v # ""
                msg == apiError.friendlyMessage
            IN  /\ has(msg)
                /\ has(apiError.detail) => msg = apiError.detail
                /\ (~has(apiError.detail) /\ has(apiError.bodyMessage))
                       => msg = apiError.bodyMessage
                /\ (~has(apiError.detail) /\ ~has(apiError.bodyMessage)
                       /\ has(apiError.message)) => msg = apiError.message
                /\ (~has(apiError.detail) /\ ~has(apiError.bodyMessage)
                       /\ ~has(apiError.message))
                       => msg = "An unexpected error occurred")
    /\ [][apiOutcome = "failing" => apiOutcome' = "rejected"]_vars

\* a response with an empty detail and a message was rejected onward
C24_Witness ==
    /\ apiOutcome = "rejected"
    /\ apiError.hasResponse
    /\ apiError.detail = ""
    /\ apiError.bodyMessage = "Not allowed"
    /\ apiError.friendlyMessage = "Not allowed"

\* request interceptor: the Authorization header put on a request, << >> for
\* none
RequestInterceptor(storage) ==
    LET t == GetItemOrNull(storage, "token")
    IN  IF t # Null THEN <<"Bearer", t>> ELSE << >>

\* the requests this step sends through apiClient (the chat stream uses
\* fetch)
ClientSends ==
    {r \in BagToSet(authNet') :
        r.op # "stream" /\ CopiesIn(r, authNet') > CopiesIn(r, authNet)}

\* C25: a request sent through the API client carries Authorization: Bearer t
\* exactly when the session holds token t when the request is sent, and no
\* Authorization header when the session is signed out.
C25_HeaderIsTheSessionToken ==
    [][ClientSends # {}
       => RequestInterceptor(sessionStorage) =
              IF token # Null THEN <<"Bearer", token>> ELSE << >>]_vars

\* a credits fetch started by a chat of the earlier session left after the
\* logout, without a header
C25_Witness ==
    /\ lastOp.op = "streamDone"
    /\ lastOp.ret = -1
    /\ token = Null
    /\ RequestInterceptor(sessionStorage) = << >>
    /\ \E r \in BagToSet(authNet) : r.op = "credits"

\* C26: when the delete of file F completes, the active dataset is cleared
\* exactly if F is the active dataset at that moment; another active file
\* stays active, and neither the click nor a failed delete changes it.
C26_DeleteClearsOnlyTheActiveFile ==
    [][/\ lastOp'.op = "deleteOk"
          => IF activeFileId = lastOp'.file
             THEN activeFileId' = Null
             ELSE activeFileId' = activeFileId
       /\ lastOp'.op \in {"deleteClick", "deleteFail"}
          => activeFileId' = activeFileId]_vars

SessionSuccess == lastOp.op \in SessionOps /\ lastOp.out = "true"

\* the effect on [token] has just called refreshCredits() with a token
CreditsIssued == lastOp.op = "initAuth" /\ lastOp.did = "restored"

\* C28: after a successful login, googleLogin or verifyEmail a credits fetch
\* is issued with no further user action; a fetch that succeeds while the
\* session is signed in makes activeBalance the balance of the response, 0
\* when active_tokens is missing.
C28_LoginFetchesCredits ==
    /\ [](SessionSuccess => <>CreditsIssued)
    /\ [][\A v \in CreditValues :
             (lastOp'.op = "refreshCredits" /\ lastOp'.out = "ok"
                 /\ lastOp'.ret = BalanceOf(v) /\ token # Null)
             => activeBalance' = (IF v = << >> THEN 0 ELSE v[1])]_vars

\* ===================================================== the file uploader
\* const allowedTypes = ['.csv', '.xlsx', '.xls', '.pdf', '.docx']
AllowedTypes ==
    { <<".", "c", "s", "v">>, <<".", "x", "l", "s", "x">>,
      <<".", "x", "l", "s">>, <<".", "p", "d", "f">>,
      <<".", "d", "o", "c", "x">> }

\* names of the files dropped or picked, character by character
FileNames ==
    { <<"a", ".", "c", "s", "v">>, <<"a", ".", "x", "l", "s", "x">>,
      <<"a", ".", "x", "l", "s">>, <<"a", ".", "p", "d", "f">>,
      <<"a", ".", "d", "o", "c", "x">>, <<"A", ".", "C", "S", "V">>,
      <<"a", ".", "b", ".", "p", "d", "f">>, <<"a", ".", "t", "x", "t">>,
      <<"c", "s", "v">>, <<"a", ".", "c", "s", "v", ".", "e", "x", "e">> }

\* String.prototype.lastIndexOf(c): 0-based, -1 when c does not occur
LastIndexOf(str, c) ==
    IF \E i \in 1..Len(str) : str[i] = c
    THEN (CHOOSE i \in 1..Len(str) :
              str[i] = c /\ \A j \in (i + 1)..Len(str) : str[j] # c) - 1
    ELSE -1

\* String.prototype.substring(start): a negative start counts as 0
Substring(str, start) ==
    SubSeq(str, (IF start < 0 THEN 0 ELSE start) + 1, Len(str))

\* String.prototype.toLowerCase()
ToLowerCase(str) ==
    [i \in 1..Len(str) |->
        CASE str[i] = "A" -> "a"
          [] str[i] = "C" -> "c"
          [] str[i] = "S" -> "s"
          [] str[i] = "V" -> "v"
          [] OTHER -> str[i]]

\* file.name.substring(file.name.lastIndexOf('.')).toLowerCase()
Extension(name) == ToLowerCase(Substring(name, LastIndexOf(name, ".")))

\* processResult.dataframes_count, and err.response?.data?.detail
DataframeCounts == {0, 1}
UploadDetails == {Undefined, "File too large"}

UploadInit ==
    /\ AppIdle
    /\ ForgotPasswordMount
    /\ ApiIdle
    /\ UploaderMount
    /\ PaymentIdle
    /\ lastOp = [op |-> "mount"]

\* validateAndUpload that uploads whatever it is given
validateAndUpload_NoValidation(file) ==
    /\ uploadState = "idle"
    /\ upFile' = file
    /\ upCalls' = << >>
    /\ fileInfo' = file
    /\ upIsTextOnly' = FALSE
    /\ uploadState' = "uploading"
    /\ upError' = Null
    /\ progress' = 0
    /\ upAwait' = "upload"
    /\ upTrace' = <<"idle", "uploading">>
    /\ upSent' = <<"upload">>
    /\ lastOp' = [op |-> "validateAndUpload", accepted |-> TRUE]
    /\ UNCHANGED upFileId
    /\ UNCHANGED <<fpVars, apiVars, payVars, dsVars, authVars, notifyVars, lastToast>>

\* validateAndUpload(file) up to the await of the upload; the drop zone is
\* rendered only while uploadState is idle
validateAndUpload(file) ==
    /\ uploadState = "idle"
    /\ upFile' = file
    /\ upCalls' = << >>
    /\ IF Extension(file) \notin AllowedTypes
       THEN /\ upError' = "Unsupported file type"
            /\ uploadState' = "error"
            /\ upTrace' = <<"idle", "error">>
            /\ upSent' = << >>
            /\ lastOp' = [op |-> "validateAndUpload", accepted |-> FALSE]
            /\ UNCHANGED <<fileInfo, upIsTextOnly, progress, upAwait>>
       ELSE /\ fileInfo' = file
            /\ upIsTextOnly' = FALSE
            /\ uploadState' = "uploading"
            /\ upError' = Null
            /\ progress' = 0
            /\ upAwait' = "upload"
            /\ upTrace' = <<"idle", "uploading">>
            /\ upSent' = <<"upload">>
            /\ lastOp' = [op |-> "validateAndUpload", accepted |-> TRUE]
    /\ UNCHANGED upFileId
    /\ UNCHANGED <<fpVars, apiVars, payVars, dsVars, authVars, notifyVars, lastToast>>

\* onUploadProgress while the upload is under way
uploadProgress(p) ==
    /\ upAwait = "upload"
    /\ progress < p
    /\ progress' = p
    /\ lastOp' = [op |-> "uploadProgress"]
    /\ UNCHANGED <<uploadState, upError, fileInfo, upIsTextOnly, upAwait,
                   upFileId, upFile, upTrace, upSent, upCalls>>
    /\ UNCHANGED <<fpVars, apiVars, payVars, dsVars, authVars, notifyVars, lastToast>>

\* the upload answered: processing is started
uploadOk(id) ==
    /\ upAwait = "upload"
    /\ upFileId' = id
    /\ uploadState' = "processing"
    /\ upAwait' = "process"
    /\ upTrace' = Append(upTrace, "processing")
    /\ upSent' = Append(upSent, "process")
    /\ lastOp' = [op |-> "uploadOk"]
    /\ UNCHANGED <<progress, upError, fileInfo, upIsTextOnly, upFile, upCalls>>
    /\ UNCHANGED <<fpVars, apiVars, payVars, dsVars, authVars, notifyVars, lastToast>>

\* the processing answered: success, and onUploadSuccess(file_id)
processOk(count) ==
    /\ upAwait = "process"
    /\ upIsTextOnly' = (IF count = 0 THEN TRUE ELSE upIsTextOnly)
    /\ uploadState' = "success"
    /\ upAwait' = "none"
    /\ upTrace' = Append(upTrace, "success")
    /\ upCalls' = Append(upCalls, upFileId)
    /\ lastOp' = [op |-> "processOk"]
    /\ UNCHANGED <<progress, upError, fileInfo, upFileId, upFile, upSent>>
    /\ UNCHANGED <<fpVars, apiVars, payVars, dsVars, authVars, notifyVars, lastToast>>

\* catch: the upload or the processing failed
uploadCatch(detail) ==
    /\ upAwait \in {"upload", "process"}
    /\ upError' = IF detail # Undefined THEN detail
                  ELSE "Failed to upload file. Please try again."
    /\ uploadState' = "error"
    /\ upAwait' = "none"
    /\ upTrace' = Append(upTrace, "error")
    /\ lastOp' = [op |-> "uploadCatch", during |-> upAwait]
    /\ UNCHANGED <<progress, fileInfo, upIsTextOnly, upFileId, upFile, upSent,
                   upCalls>>
    /\ UNCHANGED <<fpVars, apiVars, payVars, dsVars, authVars, notifyVars, lastToast>>

\* reset(): the button of the success and of the error panel
reset ==
    /\ uploadState \in {"success", "error"}
    /\ uploadState' = "idle"
    /\ fileInfo' = NoFile
    /\ upError' = Null
    /\ progress' = 0
    /\ lastOp' = [op |-> "reset"]
    /\ UNCHANGED <<upIsTextOnly, upAwait, upFileId, upFile, upTrace, upSent,
                   upCalls>>
    /\ UNCHANGED <<fpVars, apiVars, payVars, dsVars, authVars, notifyVars, lastToast>>

UploadNext ==
    \/ \E file \in FileNames : validateAndUpload(file)
    \/ \E p \in {50, 100} : uploadProgress(p)
    \/ \E id \in Files : uploadOk(id)
    \/ \E count \in DataframeCounts : processOk(count)
    \/ \E detail \in UploadDetails : uploadCatch(detail)
    \/ reset

UploadSpec == UploadInit /\ [][UploadNext]_vars

\* C29: in a run of the uploader onUploadSuccess is called at most once, and
\* only with the upload and then the processing requested and uploadState
\* gone through idle, uploading, processing, success; a run that reaches
\* success has made the call with the file_id of the upload; a run that fails
\* makes no call; a file whose extension is not .csv, .xlsx, .xls, .pdf or
\* .docx causes no request and no call.
C29_UploadSuccessOnceAfterBoth ==
    /\ [](/\ Len(upCalls) <= 1
          /\ upCalls # << >>
               => /\ upSent = <<"upload", "process">>
                  /\ upTrace = <<"idle", "uploading", "processing", "success">>
                  /\ upCalls = <<upFileId>>
          /\ upTrace[Len(upTrace)] = "success" => Len(upCalls) = 1
          /\ upTrace[Len(upTrace)] = "error" => upCalls = << >>
          /\ (upFile # NoFile /\ Extension(upFile) \notin AllowedTypes)
               => upSent = << >> /\ upCalls = << >>)
    /\ [][lastOp'.op = "uploadCatch" => upCalls' = << >>]_vars

\* a run succeeded and made its call
C29_Witness ==
    /\ lastOp.op = "processOk"
    /\ uploadState = "success"
    /\ upCalls = <<"fB">>
    /\ upSent = <<"upload", "process">>

\* ================================================ the payment-status page
\* renders of the AuthProvider while the page is shown
MaxRenders == 3

\* session_id of the URL: absent, or the session of the checkout
SessionIds == {Null, "cs_1"}

\* data of a confirmPayment response
PaymentData ==
    { [success |-> TRUE, credits_added |-> 5],
      [success |-> TRUE, credits_added |-> 10],
      [success |-> FALSE, credits_added |-> 0] }

\* details before a response was stored
NoDetails == [success |-> FALSE, credits_added |-> -1]

\* /payment/success is shown to a signed-in user, whose balance was fetched
\* or not; the effect waits to run
PaymentInit ==
    /\ token = "t1"
    /\ user = "ann"
    /\ loading = FALSE
    /\ activeBalance \in Balances
    /\ sessionStorage = [token |-> "t1", user |-> JSONstringify("ann")]
    /\ authEffectDue = FALSE
    /\ authNet = EmptyBag
    /\ DatasetIdle
    /\ localStorage["activeFileId"] = Absent
    /\ NotifyMount
    /\ lastToast = NoToast
    /\ ForgotPasswordMount
    /\ ApiIdle
    /\ UploaderMount
    /\ sessionId \in SessionIds
    /\ payStatus = "loading"
    /\ payDetails = NoDetails
    /\ payData = NoDetails
    /\ hasCalledConfirm = FALSE
    /\ payEffectDue = TRUE
    /\ payAwait = "none"
    /\ payRequests = 0
    /\ renders = 0
    /\ lastOp = [op |-> "mount"]

\* the confirming effect without the hasCalledConfirm guard
confirmPayment_NoGuard ==
    /\ payEffectDue
    /\ payEffectDue' = FALSE
    /\ IF sessionId = Null
       THEN /\ payStatus' = "error"
            /\ lastOp' = [op |-> "confirmPayment", did |-> "noSession"]
            /\ UNCHANGED <<hasCalledConfirm, payAwait, payRequests>>
       ELSE /\ hasCalledConfirm' = TRUE
            /\ payAwait' = "confirm"
            /\ payRequests' = payRequests + 1
            /\ lastOp' = [op |-> "confirmPayment", did |-> "sent"]
            /\ UNCHANGED payStatus
    /\ UNCHANGED <<sessionId, payDetails, payData, renders, authVars>>
    /\ UNCHANGED <<fpVars, apiVars, upVars, dsVars, notifyVars, lastToast>>

\* useEffect(..., [sessionId, refreshCredits]) running confirmPayment up to
\* its await
confirmPayment ==
    /\ payEffectDue
    /\ payEffectDue' = FALSE
    /\ IF sessionId = Null
       THEN /\ payStatus' = "error"
            /\ lastOp' = [op |-> "confirmPayment", did |-> "noSession"]
            /\ UNCHANGED <<hasCalledConfirm, payAwait, payRequests>>
       ELSE IF hasCalledConfirm
       THEN /\ lastOp' = [op |-> "confirmPayment", did |-> "nothing"]
            /\ UNCHANGED <<payStatus, hasCalledConfirm, payAwait, payRequests>>
       ELSE /\ hasCalledConfirm' = TRUE
            /\ payAwait' = "confirm"
            /\ payRequests' = payRequests + 1
            /\ lastOp' = [op |-> "confirmPayment", did |-> "sent"]
            /\ UNCHANGED payStatus
    /\ UNCHANGED <<sessionId, payDetails, payData, renders, authVars>>
    /\ UNCHANGED <<fpVars, apiVars, upVars, dsVars, notifyVars, lastToast>>

\* the AuthProvider renders again: refreshCredits is a new function, so the
\* effect is due again
AuthProviderRender ==
    /\ ~payEffectDue
    /\ renders < MaxRenders
    /\ renders' = renders + 1
    /\ payEffectDue' = TRUE
    /\ lastOp' = [op |-> "render"]
    /\ UNCHANGED <<sessionId, payStatus, payDetails, hasCalledConfirm, payAwait,
                   payData, payRequests, authVars>>
    /\ UNCHANGED <<fpVars, apiVars, upVars, dsVars, notifyVars, lastToast>>

\* confirmPayment after its await: data.success decides; refreshCredits() of
\* the render the effect ran in starts the credits fetch, or returns 0 at
\* once without a token
confirmPaymentOk(data) ==
    /\ ~payEffectDue
    /\ payAwait = "confirm"
    /\ payData' = data
    /\ IF ~data.success
       THEN /\ payAwait' = "none"
            /\ payStatus' = "error"
            /\ UNCHANGED payDetails
       ELSE IF token = Null
       THEN /\ payAwait' = "none"
            /\ payDetails' = data
            /\ payStatus' = "success"
       ELSE /\ payAwait' = "credits"
            /\ UNCHANGED <<payDetails, payStatus>>
    /\ lastOp' = [op |-> "confirmPaymentOk", success |-> data.success]
    /\ UNCHANGED <<sessionId, hasCalledConfirm, payEffectDue, payRequests,
                   renders, authVars>>
    /\ UNCHANGED <<fpVars, apiVars, upVars, dsVars, notifyVars, lastToast>>

\* confirmPayment catch: the request failed
confirmPaymentFail ==
    /\ ~payEffectDue
    /\ payAwait = "confirm"
    /\ payAwait' = "none"
    /\ payStatus' = "error"
    /\ lastOp' = [op |-> "confirmPaymentFail"]
    /\ UNCHANGED <<sessionId, payDetails, payData, hasCalledConfirm,
                   payEffectDue, payRequests, renders, authVars>>
    /\ UNCHANGED <<fpVars, apiVars, upVars, dsVars, notifyVars, lastToast>>

\* the credits fetch answered: setActiveBalance, then setDetails(data) and
\* the page shows success
paymentCreditsOk(v) ==
    /\ ~payEffectDue
    /\ payAwait = "credits"
    /\ activeBalance' = BalanceOf(v)
    /\ payAwait' = "none"
    /\ payDetails' = payData
    /\ payStatus' = "success"
    /\ payEffectDue' = (activeBalance' # activeBalance)
    /\ lastOp' = [op |-> "paymentCredits", out |-> "ok"]
    /\ UNCHANGED <<sessionId, payData, hasCalledConfirm, payRequests, renders,
                   user, token, loading, sessionStorage, authEffectDue, authNet>>
    /\ UNCHANGED <<fpVars, apiVars, upVars, dsVars, notifyVars, lastToast>>

\* the credits fetch failed: refreshCredits returns from its catch, the page
\* shows success
paymentCreditsFail ==
    /\ ~payEffectDue
    /\ payAwait = "credits"
    /\ payAwait' = "none"
    /\ payDetails' = payData
    /\ payStatus' = "success"
    /\ lastOp' = [op |-> "paymentCredits", out |-> "failed"]
    /\ UNCHANGED <<sessionId, payData, hasCalledConfirm, payEffectDue,
                   payRequests, renders, authVars>>
    /\ UNCHANGED <<fpVars, apiVars, upVars, dsVars, notifyVars, lastToast>>

PaymentNext ==
    \/ confirmPayment
    \/ AuthProviderRender
    \/ \E data \in PaymentData : confirmPaymentOk(data)
    \/ confirmPaymentFail
    \/ \E v \in CreditValues : paymentCreditsOk(v)
    \/ paymentCreditsFail

PaymentSpec == PaymentInit /\ [][PaymentNext]_vars

\* C30: the page sends at most one confirmPayment request however often the
\* effect runs again; without a session_id it sends none and shows error;
\* the status turns success only in the step in which refreshCredits settles.
C30_ConfirmPaymentAtMostOnce ==
    /\ [](/\ payRequests <= 1
          /\ (sessionId = Null /\ lastOp.op # "mount")
               => payRequests = 0 /\ payStatus = "error"
          /\ payStatus = "success" => payRequests = 1 /\ payAwait = "none")
    /\ [][(payStatus # "success" /\ payStatus' = "success")
          => \/ payAwait = "credits" /\ lastOp'.op = "paymentCredits"
             \/ token = Null /\ lastOp'.op = "confirmPaymentOk"]_vars

\* the effect ran again after the request had been sent, and sent nothing
C30_Witness ==
    /\ lastOp.op = "confirmPayment"
    /\ lastOp.did = "nothing"
    /\ renders > 0
    /\ payRequests = 1

====
